---- MODULE Spec2Model ----
(***************************************************************************)
(* ParallelProcessingSystem (src/src/refactoring/parallel_processing.py)   *)
(* as a state machine.  The class is single-threaded: every public method  *)
(* runs to completion before the next one starts, so each method is one    *)
(* action.  The variables are the instance attributes set in __init__,     *)
(* the wall clock read by _get_timestamp, and four bookkeeping variables   *)
(* (last_call, events, history, calls) that record what the calls did.     *)
(* ContextManager (src/context_manager.py) is modelled in the same module, *)
(* with its own variables and its own specification ContextSpec.           *)
(* ErrorRecoverySystem (src/src/refactoring/error_recovery.py) likewise,   *)
(* with the specifications RecoverySpec and HistorySpec.                   *)
(***************************************************************************)
EXTENDS Integers, Sequences, FiniteSets, TLC

VARIABLES
    active_tasks,       \* self.active_tasks: task id -> task_info
    task_dependencies,  \* self.task_dependencies: task id -> (subtask id -> dependency ids)
    task_results,       \* self.task_results: task id -> (subtask id -> result)
    task_queue,         \* self.task_queue: list of queue items
    completed_tasks,    \* self.completed_tasks: set of SUBTASK ids (one set for all tasks)
    failed_tasks,       \* self.failed_tasks: set of SUBTASK ids (one set for all tasks)
    now,                \* the value int(time.time()) would return
    last_call,          \* the last method call: its name, argument and return value
    events,             \* what the last call enqueued and executed, in order
    history,            \* per task id: what has been done with the task so far
    calls,              \* the number of method calls made so far
    \* ContextManager (src/context_manager.py)
    active_context,         \* self.active_context: list of events
    summarized_context,     \* self.summarized_context: list of summaries
    importance_weights,     \* self.importance_weights: event id -> importance
    current_context_size,   \* self.current_context_size: estimated tokens
    add_calls,              \* the number of add_event calls made so far
    \* ErrorRecoverySystem (src/src/refactoring/error_recovery.py)
    error_patterns,         \* self.error_patterns: error type -> pattern info
    recovery_strategies,    \* self.recovery_strategies: name -> strategy info
    error_history,          \* self.error_history: list of detected errors
    active_recoveries,      \* self.active_recoveries: error id -> attempts
    recovery_call,          \* the last detect_error or attempt_recovery call
    invocations,            \* per detected error: strategy invocations so far
    detections              \* the number of errors detected so far

vars == <<active_tasks, task_dependencies, task_results, task_queue,
          completed_tasks, failed_tasks, now, last_call, events, history, calls>>

context_vars == <<active_context, summarized_context, importance_weights,
                  current_context_size, add_calls>>

recovery_vars == <<error_patterns, recovery_strategies, error_history,
                   active_recoveries, recovery_call, invocations, detections>>

all_vars == <<vars, context_vars, recovery_vars>>

-----------------------------------------------------------------------------
(* Bounds of the model. *)

\* At most MaxCalls method calls are made.
MaxCalls == 4
\* The clock takes the values 0..MaxTime.
MaxTime == 1
\* At most MaxTasks task ids are registered.
MaxTasks == 2

\* The constructor argument max_parallel_tasks (default 4); the model
\* constructs ParallelProcessingSystem(max_parallel_tasks=2).
max_parallel_tasks == 2

-----------------------------------------------------------------------------
(* Inputs. *)

None == "None"

\* end_time is None or a timestamp: <<>> or <<timestamp>>.
NoTime == <<>>
Stamp(timestamp) == <<timestamp>>

\* Task descriptions handed to decompose_task.
SimpleTask == [name |-> "Simple task"]
StepsTask  == [name |-> "Steps task",
               steps |-> <<[parallel |-> FALSE], [parallel |-> TRUE]>>]
EmptyTask  == [name |-> "Empty task", steps |-> <<>>]

Subtask(id, deps) == [id |-> id, dependencies |-> deps]

\* subtask_definitions handed to decompose_task.  None and the empty list are
\* both falsy in "if subtask_definitions:", and both auto-decompose.
NoDefinitions == <<>>
\* A -> {B, C} -> D
DiamondDefinitions ==
    << Subtask("subtask_1", {}), Subtask("subtask_2", {"subtask_1"}),
       Subtask("subtask_3", {"subtask_1"}),
       Subtask("subtask_4", {"subtask_2", "subtask_3"}) >>
\* A depends on B, B depends on A, C is free
CyclicDefinitions ==
    << Subtask("subtask_1", {"subtask_2"}), Subtask("subtask_2", {"subtask_1"}),
       Subtask("subtask_3", {}) >>
\* B names a dependency that is no subtask of the list
DanglingDefinitions ==
    << Subtask("subtask_1", {}), Subtask("subtask_2", {"subtask_9"}) >>
\* A -> B, and C independent
ContainmentDefinitions ==
    << Subtask("subtask_1", {}), Subtask("subtask_2", {"subtask_1"}),
       Subtask("subtask_3", {}) >>

\* The (task, subtask_definitions) pairs handed to decompose_task.
Submissions ==
    { <<SimpleTask, NoDefinitions>>, <<SimpleTask, DiamondDefinitions>>,
      <<SimpleTask, ContainmentDefinitions>>,
      <<StepsTask, NoDefinitions>>, <<StepsTask, CyclicDefinitions>>,
      <<StepsTask, DanglingDefinitions>>, <<EmptyTask, NoDefinitions>> }

\* The executor's outcome for one subtask execution: it returns or it raises.
Outcomes == {"ok", "raise"}

-----------------------------------------------------------------------------
(* Helpers. *)

EmptyMap == [x \in {} |-> None]

Put(f, k, v) == [x \in DOMAIN f \cup {k} |-> IF x = k THEN v ELSE f[x]]

Range(s) == {s[i] : i \in 1..Len(s)}

\* hashlib.md5(json.dumps(task, sort_keys=True).encode()).hexdigest()[:8]
task_hash(task) ==
    CASE task = SimpleTask -> "c8605470"
      [] task = StepsTask  -> "6fbdea66"
      [] task = EmptyTask  -> "4cfc05f3"

\* _generate_task_id: f"task_{timestamp}_{task_hash}"
generate_task_id(task) == <<"task", now, task_hash(task)>>

\* An id that generate_task_id never returned.
UnknownTaskId == <<"task", 0, "00000000">>

\* f"subtask_{i}"
subtask_name(i) == <<"subtask_1", "subtask_2", "subtask_3", "subtask_4">>[i]

\* _auto_decompose_task, the loop over task['steps']
RECURSIVE auto_steps(_, _)
auto_steps(steps, i) ==
    IF i > Len(steps) THEN <<>>
    ELSE <<Subtask(subtask_name(i),
                   IF i > 1 /\ steps[i].parallel = FALSE
                   THEN {subtask_name(i - 1)} ELSE {})>>
         \o auto_steps(steps, i + 1)

\* _auto_decompose_task
auto_decompose_task(task) ==
    IF "steps" \in DOMAIN task
    THEN auto_steps(task.steps, 1)
    ELSE << Subtask("subtask_1", {}), Subtask("subtask_2", {"subtask_1"}),
            Subtask("subtask_3", {"subtask_2"}) >>

\* A result entry: None (pending), the executor's result dict
\* ({'status': 'completed', ...}) or the error dict ({'status': 'error', ...}).
Success == "completed"
Failure == "error"

\* progress = completed_subtasks / total_subtasks if total_subtasks > 0 else 0,
\* kept as the fraction <<numerator, denominator>>.
Progress(completed_subtasks, total_subtasks) ==
    IF total_subtasks > 0 THEN <<completed_subtasks, total_subtasks>> ELSE <<0, 1>>

\* progress == 1.0
IsOne(progress) == progress[1] = progress[2]

-----------------------------------------------------------------------------
(* The state after ParallelProcessingSystem(max_parallel_tasks). *)

\* ContextManager.__init__
ContextInit ==
    /\ active_context = <<>>
    /\ summarized_context = <<>>
    /\ importance_weights = EmptyMap
    /\ current_context_size = 0
    /\ add_calls = 0

\* ErrorRecoverySystem.register_error_pattern
register_error_pattern(patterns, error_type, pattern, severity, recovery_strategy) ==
    Put(patterns, error_type,
        [pattern |-> pattern, severity |-> severity,
         recovery_strategy |-> recovery_strategy,
         occurrences |-> 0, successful_recoveries |-> 0])

\* ErrorRecoverySystem.register_recovery_strategy; success_rate is kept as the
\* fraction <<successes, attempts>>, 0 being <<0, 1>>.  The strategy function
\* is the caller's code: what it does is an input of attempt_recovery.
register_recovery_strategy(strategies, strategy_name, applicable_errors) ==
    Put(strategies, strategy_name,
        [applicable_errors |-> applicable_errors, success_rate |-> <<0, 1>>,
         attempts |-> 0, successes |-> 0])

\* The error types and the strategies in the order of their registration (a
\* dict is iterated in insertion order).
PatternOrder == <<"file_not_found", "connection_refused">>
StrategyOrder == <<"create_file", "retry_with_backoff">>

\* The fixture of the tests: file_not_found names the strategy create_file;
\* connection_refused is registered without a strategy (the default None) and
\* is one of the applicable errors of retry_with_backoff.
RegisteredPatterns ==
    register_error_pattern(
        register_error_pattern(EmptyMap, "file_not_found",
                               "No such file or directory", 3, "create_file"),
        "connection_refused", "Connection refused", 4, None)

RegisteredStrategies ==
    register_recovery_strategy(
        register_recovery_strategy(EmptyMap, "create_file", {"file_not_found"}),
        "retry_with_backoff", {"network_timeout", "connection_refused"})

\* ErrorRecoverySystem.__init__, followed by the registrations of the fixture
RecoveryInit ==
    /\ error_patterns = RegisteredPatterns
    /\ recovery_strategies = RegisteredStrategies
    /\ error_history = <<>>
    /\ active_recoveries = EmptyMap
    /\ recovery_call = [op |-> "init", detection |-> 0, success |-> FALSE,
                        message |-> None, invoked |-> None, prior |-> 0]
    /\ invocations = EmptyMap
    /\ detections = 0

\* a ParallelProcessingSystem, a ContextManager and an ErrorRecoverySystem,
\* all three just constructed
Init ==
    /\ ContextInit
    /\ RecoveryInit
    /\ active_tasks = EmptyMap
    /\ task_dependencies = EmptyMap
    /\ task_results = EmptyMap
    /\ task_queue = <<>>
    /\ completed_tasks = {}
    /\ failed_tasks = {}
    /\ now = 0
    /\ last_call = [op |-> "init", task_id |-> <<>>, ret |-> [status |-> None]]
    /\ events = <<>>
    /\ history = EmptyMap
    /\ calls = 0

\* time passes between two calls
Tick ==
    /\ now < MaxTime
    /\ now' = now + 1
    /\ UNCHANGED <<active_tasks, task_dependencies, task_results, task_queue,
                   completed_tasks, failed_tasks, last_call, events, history, calls>>
    /\ UNCHANGED context_vars
    /\ UNCHANGED recovery_vars

\* every method call counts; the scheduler does not touch the ContextManager
Called ==
    /\ calls < MaxCalls
    /\ calls' = calls + 1
    /\ UNCHANGED context_vars
    /\ UNCHANGED recovery_vars

\* an unknown id answered with the message of another error
NotFoundWrongMessage == [status |-> "error", message |-> "Task already completed"]

NotFound == [status |-> "error", message |-> "Task not found"]

\* the bookkeeping entry of a task that was just registered
FreshHistory == [execute_calls |-> 0, cancelled |-> FALSE, raised |-> FALSE]

-----------------------------------------------------------------------------
(* decompose_task *)

SubtaskIds(subtasks) == {subtasks[i].id : i \in 1..Len(subtasks)}

decompose_task(task, subtask_definitions) ==
    LET task_id == generate_task_id(task)
        subtasks == IF subtask_definitions # NoDefinitions
                    THEN subtask_definitions
                    ELSE auto_decompose_task(task)
    IN
    /\ Called
    /\ Cardinality(DOMAIN active_tasks \cup {task_id}) <= MaxTasks
    /\ active_tasks' = Put(active_tasks, task_id,
            [main_task |-> task, subtasks |-> subtasks, status |-> "decomposed",
             progress |-> <<0, 1>>, start_time |-> now, end_time |-> NoTime])
    /\ task_dependencies' = Put(task_dependencies, task_id,
            [id \in SubtaskIds(subtasks) |->
                (CHOOSE s \in Range(subtasks) : s.id = id).dependencies])
    /\ task_results' = Put(task_results, task_id,
            [id \in SubtaskIds(subtasks) |-> None])
    /\ last_call' = [op |-> "decompose_task", task_id |-> task_id,
                     ret |-> [status |-> "ok", task_id |-> task_id]]
    /\ events' = <<>>
    /\ history' = Put(history, task_id, FreshHistory)
    /\ UNCHANGED <<task_queue, completed_tasks, failed_tasks, now>>

-----------------------------------------------------------------------------
(* The scheduler's private steps.  They work on a record st holding the      *)
(* attributes a dispatch pass changes: task_results, task_queue,             *)
(* completed_tasks, failed_tasks, and the log of events.                     *)

\* every dependency has a success entry in the task's own result map
DepsSucceeded(results, dependencies) ==
    \A dep \in dependencies : dep \in DOMAIN results /\ results[dep] = Success

Event(kind, st, task_id, subtask, outcome) ==
    [kind |-> kind, task_id |-> task_id, subtask_id |-> subtask.id,
     outcome |-> outcome,
     deps_ok |-> DepsSucceeded(st.task_results[task_id], subtask.dependencies)]

\* _queue_subtask
queue_subtask(st, task_id, subtask) ==
    [st EXCEPT
        !.task_queue = Append(@, [task_id |-> task_id, subtask_id |-> subtask.id,
                                  subtask |-> subtask, queued_time |-> now]),
        !.events = Append(@, Event("enqueue", st, task_id, subtask, None))]

\* _queue_dependent_subtasks, "Skip if already completed or queued"
already_completed_or_queued(st, subtask_id) ==
    \/ subtask_id \in st.completed_tasks
    \/ subtask_id \in st.failed_tasks
    \/ \E i \in 1..Len(st.task_queue) : st.task_queue[i].subtask_id = subtask_id

\* _queue_dependent_subtasks, "Check if all dependencies are satisfied"
dependencies_satisfied(st, dependencies) ==
    \A dep \in dependencies : dep \in st.completed_tasks

\* _queue_dependent_subtasks, the loop over task_info['subtasks'] from index k
RECURSIVE queue_dependent_from(_, _, _)
queue_dependent_from(st, task_id, k) ==
    LET subtasks == active_tasks[task_id].subtasks IN
    IF k > Len(subtasks) THEN st
    ELSE LET subtask == subtasks[k]
             dependencies == task_dependencies[task_id][subtask.id]
         IN queue_dependent_from(
                IF /\ ~already_completed_or_queued(st, subtask.id)
                   /\ dependencies_satisfied(st, dependencies)
                THEN queue_subtask(st, task_id, subtask)
                ELSE st,
                task_id, k + 1)

\* _queue_dependent_subtasks
queue_dependent_subtasks(st, task_id, completed_subtask_id) ==
    queue_dependent_from(st, task_id, 1)

\* _process_task_queue, the try branch: the executor returned
record_success(st, task_id, subtask_id) ==
    queue_dependent_subtasks(
        [st EXCEPT !.task_results[task_id] = Put(@, subtask_id, Success),
                   !.completed_tasks = @ \cup {subtask_id}],
        task_id, subtask_id)

\* record_failure with the result entry left unwritten
record_failure_without_entry(st, task_id, subtask_id) ==
    [st EXCEPT !.failed_tasks = @ \cup {subtask_id}]

\* _process_task_queue, the except branch: the executor raised
record_failure(st, task_id, subtask_id) ==
    [st EXCEPT !.failed_tasks = @ \cup {subtask_id},
               !.task_results[task_id] = Put(@, subtask_id, Failure)]

\* _process_task_queue, one iteration of the loop over the slice
execute_item(st, queue_item, outcome) ==
    LET logged == [st EXCEPT !.events = Append(@,
                       Event("execute", st, queue_item.task_id, queue_item.subtask, outcome))]
    IN IF outcome = "ok"
       THEN record_success(logged, queue_item.task_id, queue_item.subtask_id)
       ELSE record_failure(logged, queue_item.task_id, queue_item.subtask_id)

\* _process_task_queue, the loop over the slice from index i
RECURSIVE execute_from(_, _, _, _)
execute_from(st, slice, outcomes, i) ==
    IF i > Len(slice) THEN st
    ELSE execute_from(execute_item(st, slice[i], outcomes[i]), slice, outcomes, i + 1)

\* list.remove(item): drops the first element equal to item
RECURSIVE remove(_, _)
remove(queue, item) ==
    IF queue = <<>> THEN <<>>
    ELSE IF Head(queue) = item THEN Tail(queue)
    ELSE <<Head(queue)>> \o remove(Tail(queue), item)

\* _process_task_queue, "Remove executed items from queue"
RECURSIVE remove_executed(_, _)
remove_executed(queue, executed) ==
    IF executed = <<>> THEN queue
    ELSE remove_executed(remove(queue, Head(executed)), Tail(executed))

\* a pass that executes every queued item of the task
queue_slice_unbounded(queue_to_process) == queue_to_process

\* _process_task_queue, queue_to_process[:self.max_parallel_tasks]
queue_slice(queue_to_process) ==
    SubSeq(queue_to_process, 1,
           IF Len(queue_to_process) < max_parallel_tasks
           THEN Len(queue_to_process) ELSE max_parallel_tasks)

\* a pass over the whole queue, as _process_task_queue makes without a task_id
queue_to_process_of_every_task(queue, task_id) == queue

\* _process_task_queue, the queue filtered for task_id
queue_to_process(queue, task_id) ==
    SelectSeq(queue, LAMBDA item : item.task_id = task_id)

\* _process_task_queue(task_id), given the executor's outcome per slice position
process_task_queue(st, task_id, outcomes) ==
    LET slice == queue_slice(queue_to_process(st.task_queue, task_id))
        done == execute_from(st, slice, outcomes, 1)
    IN [done EXCEPT !.task_queue = remove_executed(@, slice)]

-----------------------------------------------------------------------------
(* execute_task *)

\* execute_task, "Identify initial subtasks (those with no dependencies)"
is_initial(task_id, subtask) ==
    task_dependencies[task_id][subtask.id] = {}

RECURSIVE queue_initial_from(_, _, _)
queue_initial_from(st, task_id, k) ==
    LET subtasks == active_tasks[task_id].subtasks IN
    IF k > Len(subtasks) THEN st
    ELSE queue_initial_from(
            IF is_initial(task_id, subtasks[k])
            THEN queue_subtask(st, task_id, subtasks[k]) ELSE st,
            task_id, k + 1)

\* execute_task, "Update status"
execute_status(status) == "executing"

\* the st record of the current state, with an empty event log
Current ==
    [task_results |-> task_results, task_queue |-> task_queue,
     completed_tasks |-> completed_tasks, failed_tasks |-> failed_tasks,
     events |-> <<>>]

Bump(n) == IF n < 2 THEN n + 1 ELSE n

execute_task(task_id) ==
    /\ Called
    /\ IF task_id \notin DOMAIN active_tasks
       THEN /\ last_call' = [op |-> "execute_task", task_id |-> task_id, ret |-> NotFound]
            /\ events' = <<>>
            /\ UNCHANGED <<active_tasks, task_dependencies, task_results, task_queue,
                           completed_tasks, failed_tasks, now, history>>
       ELSE LET queued == queue_initial_from(Current, task_id, 1)
                slice == queue_slice(queue_to_process(queued.task_queue, task_id))
            IN \E outcomes \in [1..Len(slice) -> Outcomes] :
               LET done == process_task_queue(queued, task_id, outcomes) IN
               /\ active_tasks' = [active_tasks EXCEPT ![task_id].status = execute_status(@)]
               /\ task_results' = done.task_results
               /\ task_queue' = done.task_queue
               /\ completed_tasks' = done.completed_tasks
               /\ failed_tasks' = done.failed_tasks
               /\ events' = done.events
               /\ last_call' = [op |-> "execute_task", task_id |-> task_id,
                                ret |-> [status |-> "executing",
                                         queued |-> Len(done.task_queue),
                                         executed |-> Len(slice)]]
               /\ history' = [history EXCEPT
                       ![task_id].execute_calls = Bump(@),
                       ![task_id].raised = @ \/ \E i \in 1..Len(slice) : outcomes[i] = "raise"]
               /\ UNCHANGED <<task_dependencies, now>>

-----------------------------------------------------------------------------
(* get_task_status *)

\* get_task_status, completed_subtasks: the entries that are not None
completed_count(results) ==
    Cardinality({subtask_id \in DOMAIN results : results[subtask_id] # None})

\* a status call that completes, and stamps, a task at every call
becomes_completed_again(progress, status) == IsOne(progress)

\* get_task_status, "Check if all subtasks are complete"
becomes_completed(progress, status) ==
    IsOne(progress) /\ status # "completed"

\* get_task_status / get_task_results, failed_subtasks
failed_subtasks(results) ==
    {subtask_id \in DOMAIN results : subtask_id \in failed_tasks}

\* a status call that stores the computed progress in every task
store_status_in_every_task(task_id, progress, status, end_time) ==
    [id \in DOMAIN active_tasks |->
        IF id = task_id
        THEN [active_tasks[id] EXCEPT !.progress = progress, !.status = status,
                                     !.end_time = end_time]
        ELSE [active_tasks[id] EXCEPT !.progress = progress]]

\* get_task_status, the assignments to task_info
store_status(task_id, progress, status, end_time) ==
    [active_tasks EXCEPT
        ![task_id].progress = progress,
        ![task_id].status = status,
        ![task_id].end_time = end_time]

get_task_status(task_id) ==
    /\ Called
    /\ IF task_id \notin DOMAIN active_tasks
       THEN /\ last_call' = [op |-> "get_task_status", task_id |-> task_id, ret |-> NotFound]
            /\ events' = <<>>
            /\ UNCHANGED <<active_tasks, task_dependencies, task_results, task_queue,
                           completed_tasks, failed_tasks, now, history>>
       ELSE LET task_info == active_tasks[task_id]
                total_subtasks == Len(task_info.subtasks)
                completed_subtasks == completed_count(task_results[task_id])
                progress == Progress(completed_subtasks, total_subtasks)
                flip == becomes_completed(progress, task_info.status)
                status == IF flip THEN "completed" ELSE task_info.status
                end_time == IF flip THEN Stamp(now) ELSE task_info.end_time
            IN /\ active_tasks' = store_status(task_id, progress, status, end_time)
               /\ last_call' = [op |-> "get_task_status", task_id |-> task_id,
                      again |-> (last_call.op = "get_task_status"
                                 /\ last_call.task_id = task_id),
                      ret |-> [task_id |-> task_id, status |-> status,
                               progress |-> progress,
                               start_time |-> task_info.start_time,
                               end_time |-> end_time,
                               completed_subtasks |-> completed_subtasks,
                               total_subtasks |-> total_subtasks,
                               failed_subtasks |->
                                   Cardinality(failed_subtasks(task_results[task_id]))]]
               /\ events' = <<>>
               /\ UNCHANGED <<task_dependencies, task_results, task_queue,
                              completed_tasks, failed_tasks, now, history>>

-----------------------------------------------------------------------------
(* get_task_results *)

\* a pending response that carries the entries written so far
pending_response_with_results(task_id) ==
    [status |-> "pending",
     message |-> active_tasks[task_id].status,
     progress |-> active_tasks[task_id].progress,
     subtask_results |-> task_results[task_id]]

\* get_task_results, the response for a task that is not completed
pending_response(task_id) ==
    [status |-> "pending",
     message |-> active_tasks[task_id].status,
     progress |-> active_tasks[task_id].progress]

get_task_results(task_id) ==
    /\ Called
    /\ last_call' = [op |-> "get_task_results", task_id |-> task_id,
            ret |-> IF task_id \notin DOMAIN active_tasks THEN NotFound
                    ELSE IF active_tasks[task_id].status # "completed"
                    THEN pending_response(task_id)
                    ELSE [task_id |-> task_id, status |-> "completed",
                          execution_time |-> active_tasks[task_id].end_time[1]
                                             - active_tasks[task_id].start_time,
                          subtask_results |-> task_results[task_id],
                          failed_subtasks |-> failed_subtasks(task_results[task_id])]]
    /\ events' = <<>>
    /\ UNCHANGED <<active_tasks, task_dependencies, task_results, task_queue,
                   completed_tasks, failed_tasks, now, history>>

-----------------------------------------------------------------------------
(* cancel_task *)

\* a cancel that drops the whole queue, the items of other tasks included
purge_every_task(queue, task_id) == <<>>

\* cancel_task, "Remove pending subtasks from queue"
purge(queue, task_id) ==
    SelectSeq(queue, LAMBDA item : item.task_id # task_id)

\* a cancel that never refuses
already_completed_ignored(status) == FALSE

\* cancel_task, the test for "Task already completed"
already_completed(status) == status = "completed"

cancel_task(task_id) ==
    /\ Called
    /\ IF task_id \notin DOMAIN active_tasks
       THEN /\ last_call' = [op |-> "cancel_task", task_id |-> task_id, ret |-> NotFound]
            /\ events' = <<>>
            /\ UNCHANGED <<active_tasks, task_dependencies, task_results, task_queue,
                           completed_tasks, failed_tasks, now, history>>
       ELSE IF already_completed(active_tasks[task_id].status)
       THEN /\ last_call' = [op |-> "cancel_task", task_id |-> task_id,
                             ret |-> [status |-> "error", message |-> "Task already completed"]]
            /\ events' = <<>>
            /\ UNCHANGED <<active_tasks, task_dependencies, task_results, task_queue,
                           completed_tasks, failed_tasks, now, history>>
       ELSE /\ active_tasks' = [active_tasks EXCEPT
                   ![task_id].status = "cancelled",
                   ![task_id].end_time = Stamp(now)]
            /\ task_queue' = purge(task_queue, task_id)
            /\ last_call' = [op |-> "cancel_task", task_id |-> task_id,
                             ret |-> [status |-> "success", message |-> "Task cancelled",
                                      task_id |-> task_id]]
            /\ events' = <<>>
            /\ history' = [history EXCEPT ![task_id].cancelled = TRUE]
            /\ UNCHANGED <<task_dependencies, task_results, completed_tasks,
                           failed_tasks, now>>

-----------------------------------------------------------------------------
(* The calls a client can make, in any order. *)

\* The task ids a client passes: the registered ones and an unknown one.
TaskIds == DOMAIN active_tasks \cup {UnknownTaskId}

Next ==
    \/ Tick
    \/ \E submission \in Submissions : decompose_task(submission[1], submission[2])
    \/ \E task_id \in TaskIds : execute_task(task_id)
    \/ \E task_id \in TaskIds : get_task_status(task_id)
    \/ \E task_id \in TaskIds : get_task_results(task_id)
    \/ \E task_id \in TaskIds : cancel_task(task_id)

Spec == Init /\ [][Next]_all_vars

-----------------------------------------------------------------------------
(* ContextManager (src/context_manager.py).  add_event runs to completion, *)
(* summarization included, so it is one action.  Importance scores are     *)
(* kept in tenths, and the comparisons of floats are made on integers      *)
(* scaled by their common denominator.                                     *)

\* At most MaxEvents add_event calls are made.
MaxEvents == 4

\* ContextManager(max_context_size=100, summarization_threshold=0.8)
max_context_size == 100
summarization_threshold == <<8, 10>>

\* The events of the tests: ids event_0 and event_1, payload 'Test message'
\* (12 characters) or 'A' * 50; an event is equal to another one with the
\* same id and payload.
EventIds == {0, 1}
Payloads == {12, 50}
Events == [id : EventIds, payload : Payloads]
\* importance 0.5 and 1.0 (the default), in tenths
Importances == {5, 10}

\* len(str(event)) of {'id': 'event_N', 'type': 'message', 'source': 'user',
\* 'date': '2025-03-21', 'payload': ...}
str_len(event) == 91 + event.payload

\* _estimate_token_count
estimate_token_count(event) == str_len(event) \div 4

RECURSIVE context_size(_, _)
context_size(context, k) ==
    IF k > Len(context) THEN 0
    ELSE estimate_token_count(context[k]) + context_size(context, k + 1)

\* _select_events_for_summarization, combined_score of the event at
\* position i (from 1) of n, times 100 * max(1, n - 1)
combined_score(weights, context, i) ==
    LET n == Len(context)
        spread == IF n - 1 > 1 THEN n - 1 ELSE 1
    IN 7 * weights[context[i].id] * spread + 30 * (i - 1)

\* scored_events.sort(key=score): positions by ascending score, the sort
\* being stable
scored_events(weights, context) ==
    LET before(i, j) ==
            \/ combined_score(weights, context, i) < combined_score(weights, context, j)
            \/ /\ combined_score(weights, context, i) = combined_score(weights, context, j)
               /\ i < j
        place(i) == Cardinality({j \in 1..Len(context) : before(j, i)}) + 1
    IN [p \in 1..Len(context) |-> CHOOSE i \in 1..Len(context) : place(i) = p]

\* the loop of lines 136-142: take events while they fit in 30% of the size
RECURSIVE select_from(_, _, _, _, _)
select_from(context, order, k, current_reduction, size) ==
    IF k > Len(order) THEN <<>>
    ELSE LET event == context[order[k]]
             event_size == estimate_token_count(event)
         IN IF 10 * (current_reduction + event_size) <= 3 * size
            THEN <<event>> \o select_from(context, order, k + 1,
                                          current_reduction + event_size, size)
            ELSE <<>>

select_events_for_summarization(weights, context, size) ==
    select_from(context, scored_events(weights, context), 1, 0, size)

\* _create_summary, the fields that are read later
create_summary(selected, summaries) ==
    [id |-> <<"summary", Len(summaries)>>, type |-> "summary",
     event_count |-> Len(selected)]

\* _perform_summarization on the state st
perform_summarization(st) ==
    LET events_to_summarize ==
            select_events_for_summarization(st.importance_weights, st.active_context,
                                            st.current_context_size)
        kept == SelectSeq(st.active_context,
                          LAMBDA e : e \notin Range(events_to_summarize))
    IN IF events_to_summarize = <<>> THEN st
       ELSE [st EXCEPT
               !.active_context = kept,
               !.summarized_context =
                   Append(@, create_summary(events_to_summarize, st.summarized_context)),
               !.current_context_size = context_size(kept, 1)]

\* add_event, "Check if summarization is needed"
summarization_needed(size) ==
    size * summarization_threshold[2] > max_context_size * summarization_threshold[1]

add_event(event, importance) ==
    /\ add_calls < MaxEvents
    /\ add_calls' = add_calls + 1
    /\ LET added == [active_context |-> Append(active_context, event),
                     summarized_context |-> summarized_context,
                     importance_weights |-> Put(importance_weights, event.id, importance),
                     current_context_size |->
                         current_context_size + estimate_token_count(event)]
           after == IF summarization_needed(added.current_context_size)
                    THEN perform_summarization(added) ELSE added
       IN /\ active_context' = after.active_context
          /\ summarized_context' = after.summarized_context
          /\ importance_weights' = after.importance_weights
          /\ current_context_size' = after.current_context_size
    /\ UNCHANGED vars
    /\ UNCHANGED recovery_vars

RECURSIVE event_count_sum(_, _)
event_count_sum(summaries, k) ==
    IF k > Len(summaries) THEN 0
    ELSE summaries[k].event_count + event_count_sum(summaries, k + 1)

\* get_full_context, which changes no state
get_full_context ==
    [active_context |-> active_context,
     summarized_context |-> summarized_context,
     total_events_processed |->
         Len(active_context) + event_count_sum(summarized_context, 1)]

ContextNext ==
    \E event \in Events, importance \in Importances : add_event(event, importance)

ContextSpec == Init /\ [][ContextNext]_all_vars

-----------------------------------------------------------------------------
(* ErrorRecoverySystem (src/src/refactoring/error_recovery.py).  A string   *)
(* that is searched for patterns is modelled by the set of the registered   *)
(* pattern texts that occur in it.  The caller numbers its operations: the  *)
(* context of the n-th detected error is {'operation': n}.                   *)

\* At most MaxDetections errors are detected where recoveries are attempted.
MaxDetections == 2
\* At most MaxRecorded errors are detected where only the history is followed.
MaxRecorded == 102

\* self.max_history_size and self.max_recovery_attempts
max_history_size == 100
max_recovery_attempts == 3

\* str(operation_result): 'Operation completed successfully', a message with
\* one of the pattern texts, a message with both.
OperationResults ==
    {{}, {"No such file or directory"}, {"Connection refused"},
     {"No such file or directory", "Connection refused"}}

\* the results of a caller that keeps failing on the same missing file
HistoryResults == {{}, {"No such file or directory"}}

\* what the strategy function does: it returns {'success': True, ...}, it
\* returns {'success': False, ...}, or it raises
StrategyOutcomes == {"success", "failure", "raise"}

ExceededMessage == "Exceeded maximum recovery attempts (3)"
NoStrategyMessage == "No suitable recovery strategy found"
StrategyFailedMessage == "Recovery strategy failed"

\* int(time.time())
get_timestamp == now

\* _add_to_history that appends and keeps the first max_history_size entries
add_to_history_keeping_the_oldest(entries, error) ==
    LET appended == Append(entries, error)
    IN IF Len(appended) > max_history_size
       THEN SubSeq(appended, 1, max_history_size)
       ELSE appended

\* _add_to_history: append, then keep the last max_history_size entries
add_to_history(entries, error) ==
    LET appended == Append(entries, error)
    IN IF Len(appended) > max_history_size
       THEN SubSeq(appended, Len(appended) - max_history_size + 1, Len(appended))
       ELSE appended

\* the first registered error type whose pattern occurs in the result, in the
\* order of registration; <<>> when none does
first_match(operation_result) ==
    LET matching == {i \in 1..Len(PatternOrder) :
                        error_patterns[PatternOrder[i]].pattern \in operation_result}
    IN IF matching = {} THEN <<>>
       ELSE <<PatternOrder[CHOOSE i \in matching : \A j \in matching : i <= j]>>

detect_error(operation_result, operation_context) ==
    /\ LET match == first_match(operation_result)
       IN IF match = <<>>
          THEN /\ recovery_call' = [op |-> "detect_error", detection |-> 0,
                                    success |-> FALSE, message |-> None,
                                    invoked |-> None, prior |-> 0]
               /\ UNCHANGED <<error_patterns, recovery_strategies, error_history,
                              active_recoveries, invocations, detections>>
          ELSE LET error_type == match[1]
                   error_info == error_patterns[error_type]
                   error == [type |-> error_type,
                             severity |-> error_info.severity,
                             context |-> operation_context,
                             result |-> operation_result,
                             timestamp |-> get_timestamp,
                             recovery_strategy |-> error_info.recovery_strategy]
               IN /\ error_patterns' =
                         [error_patterns EXCEPT ![error_type].occurrences = @ + 1]
                  /\ error_history' = add_to_history(error_history, error)
                  /\ detections' = detections + 1
                  /\ invocations' = Put(invocations, operation_context.operation, 0)
                  /\ recovery_call' = [op |-> "detect_error",
                                       detection |-> operation_context.operation,
                                       success |-> FALSE, message |-> None,
                                       invoked |-> None, prior |-> 0]
                  /\ UNCHANGED <<recovery_strategies, active_recoveries>>
    /\ UNCHANGED vars
    /\ UNCHANGED context_vars

\* rate > other, both fractions
HigherRate(rate, other) == rate[1] * other[2] > other[1] * rate[2]

\* _find_best_recovery_strategy: the applicable strategies sorted by success
\* rate, descending; the sort is stable, so of the strategies with the highest
\* rate the one registered first is returned
find_best_recovery_strategy(error_type) ==
    LET applicable_strategies ==
            SelectSeq(StrategyOrder,
                      LAMBDA name : error_type \in recovery_strategies[name].applicable_errors)
        rate(i) == recovery_strategies[applicable_strategies[i]].success_rate
        at == 1..Len(applicable_strategies)
    IN IF applicable_strategies = <<>> THEN None
       ELSE applicable_strategies[
                CHOOSE i \in at : /\ \A j \in at : ~HigherRate(rate(j), rate(i))
                                  /\ \A j \in at : j < i => HigherRate(rate(i), rate(j))]

\* f"{error_type}_{self._get_timestamp()}"
recovery_id(error_type) == <<error_type, get_timestamp>>

\* the attempt is counted under the error id
count_attempt(error_id) ==
    IF error_id \in DOMAIN active_recoveries
    THEN [active_recoveries EXCEPT ![error_id].attempts = @ + 1]
    ELSE Put(active_recoveries, error_id, [attempts |-> 1])

attempt_recovery(error, operation_context) ==
    \E outcome \in StrategyOutcomes :
        LET error_type == error.type
            error_id == recovery_id(error_type)
            detection == error.context.operation
            named == error.recovery_strategy
            strategy_name ==
                IF named # None /\ named \in DOMAIN recovery_strategies
                THEN named
                ELSE find_best_recovery_strategy(error_type)
            answer(success, message, invoked) ==
                [op |-> "attempt_recovery", detection |-> detection,
                 success |-> success, message |-> message,
                 invoked |-> invoked, prior |-> invocations[detection]]
        IN /\ IF /\ error_id \in DOMAIN active_recoveries
                 /\ active_recoveries[error_id].attempts >= max_recovery_attempts
              THEN /\ recovery_call' = answer(FALSE, ExceededMessage, None)
                   /\ UNCHANGED <<error_patterns, recovery_strategies,
                                  active_recoveries, invocations>>
              ELSE /\ active_recoveries' = count_attempt(error_id)
                   /\ IF strategy_name = None
                      THEN /\ recovery_call' = answer(FALSE, NoStrategyMessage, None)
                           /\ UNCHANGED <<error_patterns, recovery_strategies,
                                          invocations>>
                      ELSE LET strategy == recovery_strategies[strategy_name]
                               attempts == strategy.attempts + 1
                               successes == IF outcome = "success"
                                            THEN strategy.successes + 1
                                            ELSE strategy.successes
                           IN /\ invocations' =
                                     [invocations EXCEPT ![detection] = @ + 1]
                              /\ recovery_strategies' =
                                     [recovery_strategies EXCEPT
                                         ![strategy_name].attempts = attempts,
                                         ![strategy_name].successes = successes,
                                         ![strategy_name].success_rate =
                                             IF outcome = "raise" THEN @
                                             ELSE <<successes, attempts>>]
                              /\ error_patterns' =
                                     IF outcome = "success"
                                     THEN [error_patterns EXCEPT
                                              ![error_type].successful_recoveries = @ + 1]
                                     ELSE error_patterns
                              /\ recovery_call' =
                                     answer(outcome = "success",
                                            IF outcome = "raise"
                                            THEN StrategyFailedMessage ELSE None,
                                            strategy_name)
           /\ UNCHANGED <<error_history, detections>>
           /\ UNCHANGED vars
           /\ UNCHANGED context_vars

\* errors are detected and recoveries are attempted for them while time passes
RecoveryNext ==
    \/ Tick
    \/ \E operation_result \in OperationResults :
           /\ detections < MaxDetections
           /\ detect_error(operation_result, [operation |-> detections + 1])
    \/ \E i \in 1..Len(error_history) :
           attempt_recovery(error_history[i], error_history[i].context)

RecoverySpec == Init /\ [][RecoveryNext]_all_vars

\* a long run of detections
HistoryNext ==
    \/ Tick
    \/ \E operation_result \in HistoryResults :
           /\ detections < MaxRecorded
           /\ detect_error(operation_result, [operation |-> detections + 1])

HistorySpec == Init /\ [][HistoryNext]_all_vars

-----------------------------------------------------------------------------
(* Properties. *)

Registered == DOMAIN active_tasks

\* the last call was op on a registered task
LastCall(op) == last_call.op = op /\ last_call.task_id \in Registered

\* C1: a subtask is enqueued or executed only when every id in its dependency
\* list has a success entry in the same task's result map at that moment.
C1_DispatchOnlyWhenDependenciesSucceeded ==
    \A i \in 1..Len(events) : events[i].deps_ok

\* the step is a call of method op on a registered task
IsCall(op) ==
    /\ calls' = calls + 1
    /\ last_call'.op = op
    /\ last_call'.task_id \in Registered

\* the ids of a task's subtasks, from its definition list
SubtasksOf(task_id) == SubtaskIds(active_tasks[task_id].subtasks)

\* C2: get_task_status reports 'completed' only for a task every one of whose
\* subtasks has a success entry (none failed, none without a result).
C2_CompletedOnlyIfAllSucceeded ==
    (LastCall("get_task_status") /\ last_call.ret.status = "completed")
    => \A subtask_id \in SubtasksOf(last_call.task_id) :
          /\ subtask_id \in DOMAIN task_results[last_call.task_id]
          /\ task_results[last_call.task_id][subtask_id] = Success

\* the subtasks a topological order can place, given those already placed
RECURSIVE Placeable(_, _)
Placeable(dependencies, placed) ==
    LET more == {id \in DOMAIN dependencies \ placed :
                    (dependencies[id] \cap DOMAIN dependencies) \subseteq placed}
    IN IF more = {} THEN placed ELSE Placeable(dependencies, placed \cup more)

\* the dependency relation has a cycle
HasCycle(dependencies) == Placeable(dependencies, {}) # DOMAIN dependencies

\* some subtask names a dependency that is no subtask of the same list
HasDanglingDependency(dependencies) ==
    \E id \in DOMAIN dependencies : ~(dependencies[id] \subseteq DOMAIN dependencies)

\* C3: for an acyclic task whose executor never fails and which is never
\* cancelled, one execute_task call is enough.  The call is synchronous and
\* the class starts no thread, so whatever it has not dispatched when it
\* returns stays undispatched: after that single call, get_task_status on the
\* task reports completed.
C3_OneExecuteCallCompletes ==
    (/\ LastCall("get_task_status")
     /\ history[last_call.task_id].execute_calls = 1
     /\ ~history[last_call.task_id].cancelled
     /\ \A task_id \in Registered : ~history[task_id].raised
     /\ ~HasCycle(task_dependencies[last_call.task_id])
     /\ ~HasDanglingDependency(task_dependencies[last_call.task_id]))
    => /\ last_call.ret.status = "completed"
       /\ \A subtask_id \in SubtasksOf(last_call.task_id) :
             task_results[last_call.task_id][subtask_id] = Success

\* C4: a submission whose dependency relation has a cycle is rejected: no
\* registered task has a cyclic dependency map, so none of its subtasks runs.
C4_CyclicSubmissionNotRegistered ==
    \A task_id \in Registered : ~HasCycle(task_dependencies[task_id])

\* C5: a submission naming a dependency id that is no subtask of the list is
\* rejected: nothing is entered for it in the task registry, the dependency
\* map or the result map.
C5_DanglingSubmissionNotRegistered ==
    \A task_id \in DOMAIN active_tasks \cup DOMAIN task_dependencies
                   \cup DOMAIN task_results :
        ~HasDanglingDependency(task_dependencies[task_id])

\* the positions of the log at which subtask_id was executed
ExecutionsOf(log, subtask_id) ==
    {i \in 1..Len(log) : log[i].kind = "execute" /\ log[i].subtask_id = subtask_id}

\* the executor's outcome of the last execution of subtask_id in the log
LastOutcome(log, subtask_id) ==
    LET at == ExecutionsOf(log, subtask_id)
    IN log[CHOOSE i \in at : \A j \in at : j <= i].outcome

Min(a, b) == IF a < b THEN a ELSE b

\* the number of items a dispatch pass of execute_task(task_id) finds for the
\* task: those already queued for it and its dependency-free subtasks
ItemsAtDispatch(task_id) ==
    Cardinality({i \in 1..Len(task_queue) : task_queue[i].task_id = task_id})
    + Cardinality({k \in 1..Len(active_tasks[task_id].subtasks) :
                     active_tasks[task_id].subtasks[k].dependencies = {}})

\* C6: an executor error stays inside the subtask it happened in.  In every
\* execute_task call on a registered task: the pass executes every item it
\* selected (as many as are there for the task, up to max_parallel_tasks),
\* whether or not an earlier one raised; each executed subtask ends the call
\* with its own entry, a failure entry if the executor raised for it and a
\* success entry if it returned; the entries of all other subtasks and tasks
\* are as before; and the call returns its normal 'executing' status.
C6_ExecutorErrorIsContained ==
    [][IsCall("execute_task") =>
        LET task_id == last_call'.task_id
            executed == {i \in 1..Len(events') : events'[i].kind = "execute"}
            ran == {events'[i].subtask_id : i \in executed}
        IN /\ Cardinality(executed) = Min(max_parallel_tasks, ItemsAtDispatch(task_id))
           /\ \A i \in executed : events'[i].task_id = task_id
           /\ \A subtask_id \in ran :
                task_results'[task_id][subtask_id] =
                    IF LastOutcome(events', subtask_id) = "raise"
                    THEN Failure ELSE Success
           /\ \A subtask_id \in DOMAIN task_results[task_id] \ ran :
                task_results'[task_id][subtask_id] = task_results[task_id][subtask_id]
           /\ \A other \in Registered \ {task_id} :
                task_results'[other] = task_results[other]
           /\ last_call'.ret.status = "executing"
           /\ last_call'.ret.executed = Cardinality(executed)
      ]_vars

\* C6 witness: a pass in which the executor raised for one subtask and then
\* returned for another one, each with its own entry.
C6_Witness ==
    /\ LastCall("execute_task")
    /\ \E i, j \in 1..Len(events) :
          /\ i < j
          /\ events[i].kind = "execute" /\ events[i].outcome = "raise"
          /\ events[j].kind = "execute" /\ events[j].outcome = "ok"
          /\ events[i].subtask_id # events[j].subtask_id
          /\ task_results[last_call.task_id][events[i].subtask_id] = Failure
          /\ task_results[last_call.task_id][events[j].subtask_id] = Success

\* the subtasks of task_id that depend on subtask_id, directly or transitively
RECURSIVE DependentsFrom(_, _)
DependentsFrom(dependencies, found) ==
    LET more == {id \in DOMAIN dependencies \ found : dependencies[id] \cap found # {}}
    IN IF more = {} THEN found ELSE DependentsFrom(dependencies, found \cup more)

Dependents(task_id, subtask_id) ==
    DependentsFrom(task_dependencies[task_id], {subtask_id}) \ {subtask_id}

\* C7: once a subtask has a failure entry, no subtask of the task that depends
\* on it, directly or transitively, is enqueued or executed afterwards: no
\* call made in a state where the entry is a failure dispatches a dependent.
C7_DependentsOfFailedNeverDispatched ==
    [][calls' = calls + 1 =>
        \A task_id \in Registered :
            \A subtask_id \in DOMAIN task_results[task_id] :
                task_results[task_id][subtask_id] = Failure =>
                    \A i \in 1..Len(events') :
                        ~(/\ events'[i].task_id = task_id
                          /\ events'[i].subtask_id \in Dependents(task_id, subtask_id))
      ]_vars

\* C8: execute_task on a task that is already executing, completed or
\* cancelled returns the current status, executes nothing and leaves the
\* task's status, result entries, end_time and the queue unchanged.
C8_ExecuteIsNoOpUnlessDecomposed ==
    [][(/\ IsCall("execute_task")
        /\ active_tasks[last_call'.task_id].status
              \in {"executing", "completed", "cancelled"})
       => /\ last_call'.ret.status = active_tasks[last_call'.task_id].status
          /\ events' = <<>>
          /\ active_tasks' = active_tasks
          /\ task_results' = task_results
          /\ task_queue' = task_queue
      ]_vars

\* C9: once a task's status is completed or cancelled, no execute_task,
\* get_task_status, cancel_task or get_task_results call changes it.
C9_TerminalStatusNeverChanges ==
    [][(/\ calls' = calls + 1
        /\ last_call'.op \in {"execute_task", "get_task_status",
                              "cancel_task", "get_task_results"})
       => \A task_id \in Registered :
             active_tasks[task_id].status \in {"completed", "cancelled"}
             => active_tasks'[task_id].status = active_tasks[task_id].status
      ]_vars

\* C10: get_task_status changes a status only from executing to completed and
\* only at progress 1.0, and stamps end_time only at that flip: a decomposed
\* or cancelled task is left as it is.
C10_StatusCallOnlyCompletesExecuting ==
    [][IsCall("get_task_status") =>
        LET before == active_tasks[last_call'.task_id]
            after == active_tasks'[last_call'.task_id]
        IN /\ after.status # before.status
                => /\ before.status = "executing"
                   /\ after.status = "completed"
                   /\ IsOne(after.progress)
           /\ after.end_time # before.end_time
                => before.status = "executing" /\ after.status = "completed"
      ]_vars

-----------------------------------------------------------------------------
\* the items of queue that belong to a task other than task_id, in queue order
ItemsOfOthers(queue, task_id) ==
    SelectSeq(queue, LAMBDA item : item.task_id # task_id)

\* C11: a successful cancel_task(t) sets t's status to cancelled, stamps its
\* end_time with the current time and leaves no queue item of t; the queue
\* items of every other task remain, in their original relative order, and
\* no result entry of any task is changed.
C11_CancelFrame ==
    [][(IsCall("cancel_task") /\ last_call'.ret.status = "success") =>
        LET task_id == last_call'.task_id IN
        /\ active_tasks'[task_id].status = "cancelled"
        /\ active_tasks'[task_id].end_time = Stamp(now)
        /\ \A i \in 1..Len(task_queue') : task_queue'[i].task_id # task_id
        /\ task_queue' = ItemsOfOthers(task_queue, task_id)
        /\ task_results' = task_results]_vars

\* a task was executed, one of its subtasks still waits with all its
\* dependencies succeeded, and the task was then cancelled with success
C11_Witness ==
    /\ LastCall("cancel_task")
    /\ last_call.ret.status = "success"
    /\ LET task_id == last_call.task_id IN
       /\ history[task_id].execute_calls >= 1
       /\ active_tasks[task_id].status = "cancelled"
       /\ active_tasks[task_id].end_time = Stamp(now)
       /\ \E subtask_id \in SubtasksOf(task_id) :
              /\ task_results[task_id][subtask_id] = None
              /\ task_dependencies[task_id][subtask_id] # {}
              /\ DepsSucceeded(task_results[task_id],
                               task_dependencies[task_id][subtask_id])
       /\ \A i \in 1..Len(task_queue) : task_queue[i].task_id # task_id

-----------------------------------------------------------------------------
-----------------------------------------------------------------------------
AlreadyCompleted == [status |-> "error", message |-> "Task already completed"]

\* C13: cancel_task on a task whose status is completed returns the error
\* 'Task already completed' and changes nothing: the task's status, end_time
\* and results and the queue are as before.
C13_CancelCompletedChangesNothing ==
    [][(IsCall("cancel_task")
          /\ active_tasks[last_call'.task_id].status = "completed") =>
        /\ last_call'.ret = AlreadyCompleted
        /\ active_tasks' = active_tasks
        /\ task_results' = task_results
        /\ task_queue' = task_queue]_vars

\* a completed task, with its end_time stamped, whose cancel was refused
C13_Witness ==
    /\ LastCall("cancel_task")
    /\ last_call.ret = AlreadyCompleted
    /\ active_tasks[last_call.task_id].status = "completed"
    /\ active_tasks[last_call.task_id].end_time # NoTime

-----------------------------------------------------------------------------
TaskNotFoundError == [status |-> "error", message |-> "Task not found"]

LookupOps == {"execute_task", "get_task_status", "get_task_results", "cancel_task"}

\* C14: execute_task, get_task_status, get_task_results and cancel_task,
\* called with a task id that is not registered, each return the error
\* 'Task not found' and leave the whole scheduler state unchanged.
C14_UnknownIdChangesNothing ==
    [][(/\ calls' = calls + 1
        /\ last_call'.op \in LookupOps
        /\ last_call'.task_id \notin Registered) =>
        /\ last_call'.ret = TaskNotFoundError
        /\ UNCHANGED <<active_tasks, task_dependencies, task_results,
                       task_queue, completed_tasks, failed_tasks>>]_vars

\* a call with the unknown id was answered while a task is registered and
\* the queue is not empty
C14_Witness ==
    /\ last_call.op \in LookupOps
    /\ last_call.task_id \notin Registered
    /\ last_call.ret = TaskNotFoundError
    /\ Registered # {}
    /\ task_queue # <<>>

-----------------------------------------------------------------------------
\* C15: the queue holds at most one item per (task, subtask) pair, and never
\* an item of a subtask that already has a success or failure entry.
C15_QueueHoldsPendingSubtasksOnce ==
    /\ \A i, j \in 1..Len(task_queue) :
          (/\ task_queue[i].task_id = task_queue[j].task_id
           /\ task_queue[i].subtask_id = task_queue[j].subtask_id) => i = j
    /\ \A i \in 1..Len(task_queue) :
          LET results == task_results[task_queue[i].task_id] IN
          task_queue[i].subtask_id \in DOMAIN results =>
              results[task_queue[i].subtask_id] = None

-----------------------------------------------------------------------------
\* C16: a result entry is write-once: an entry that holds a success or a
\* failure is never overwritten by a later operation on the task, and no
\* subtask is executed while it already has an entry.
C16_ResultEntryIsWriteOnce ==
    [][(calls' = calls + 1 /\ last_call'.op \in LookupOps) =>
        \A task_id \in Registered :
            \A subtask_id \in DOMAIN task_results[task_id] :
                task_results[task_id][subtask_id] # None =>
                    /\ task_results'[task_id][subtask_id]
                           = task_results[task_id][subtask_id]
                    /\ \A i \in 1..Len(events') :
                          ~ (/\ events'[i].kind = "execute"
                             /\ events'[i].task_id = task_id
                             /\ events'[i].subtask_id = subtask_id)]_vars

-----------------------------------------------------------------------------
ExecutedInLastCall == {i \in 1..Len(events) : events[i].kind = "execute"}

\* C17: one dispatch pass executes at most max_parallel_tasks subtasks; the
\* 'executed' count that execute_task returns is the number of subtasks the
\* pass executed, and never exceeds max_parallel_tasks.
C17_PassExecutesAtMostMaxParallel ==
    LastCall("execute_task") =>
        /\ Cardinality(ExecutedInLastCall) <= max_parallel_tasks
        /\ last_call.ret.executed = Cardinality(ExecutedInLastCall)
        /\ last_call.ret.executed <= max_parallel_tasks

\* a pass that executed max_parallel_tasks subtasks and left behind an item
\* of the task that was queued before the pass began
C17_Witness ==
    /\ LastCall("execute_task")
    /\ last_call.ret.executed = max_parallel_tasks
    /\ \E i \in 1..Len(task_queue) :
          /\ task_queue[i].task_id = last_call.task_id
          /\ task_queue[i].subtask.dependencies = {}

-----------------------------------------------------------------------------
AllSucceeded(task_id) ==
    /\ SubtasksOf(task_id) # {}
    /\ \A subtask_id \in SubtasksOf(task_id) :
          /\ subtask_id \in DOMAIN task_results[task_id]
          /\ task_results[task_id][subtask_id] = Success

\* C18: completion is evaluated at each result write: when execute_task has
\* written the success of the last subtask of a task, the task's status is
\* completed and its end_time is set, with no get_task_status call needed.
C18_CompletedAtLastResultWrite ==
    (LastCall("execute_task") /\ AllSucceeded(last_call.task_id)) =>
        /\ active_tasks[last_call.task_id].status = "completed"
        /\ active_tasks[last_call.task_id].end_time # NoTime

-----------------------------------------------------------------------------
\* C19: get_task_results returns a 'pending' response without any subtask
\* result whenever the task's status is not completed, and returns the
\* subtask results only when the status is completed.
C19_ResultsOnlyWhenCompleted ==
    LastCall("get_task_results") =>
        LET task_id == last_call.task_id
            ret == last_call.ret
        IN IF active_tasks[task_id].status = "completed"
           THEN /\ ret.status = "completed"
                /\ ret.subtask_results = task_results[task_id]
           ELSE /\ ret.status = "pending"
                /\ "subtask_results" \notin DOMAIN ret

\* a pending response for a task that is not completed and already has a
\* success entry
C19_Witness ==
    /\ LastCall("get_task_results")
    /\ last_call.ret.status = "pending"
    /\ active_tasks[last_call.task_id].status # "completed"
    /\ \E subtask_id \in DOMAIN task_results[last_call.task_id] :
          task_results[last_call.task_id][subtask_id] = Success

-----------------------------------------------------------------------------
\* C20: of two consecutive get_task_status calls on the same task, with no
\* other operation between them, the second returns the same status,
\* progress, completed_subtasks, failed_subtasks and end_time as the first,
\* and changes no state.
C20_StatusCallIsIdempotent ==
    [][(/\ IsCall("get_task_status")
        /\ LastCall("get_task_status")
        /\ last_call'.task_id = last_call.task_id) =>
        /\ last_call'.ret.status = last_call.ret.status
        /\ last_call'.ret.progress = last_call.ret.progress
        /\ last_call'.ret.completed_subtasks = last_call.ret.completed_subtasks
        /\ last_call'.ret.failed_subtasks = last_call.ret.failed_subtasks
        /\ last_call'.ret.end_time = last_call.ret.end_time
        /\ UNCHANGED <<active_tasks, task_dependencies, task_results,
                       task_queue, completed_tasks, failed_tasks>>]_vars

\* the second of two consecutive status calls on a task that the first one
\* found, or made, completed
C20_Witness ==
    /\ LastCall("get_task_status")
    /\ last_call.again
    /\ last_call.ret.status = "completed"
    /\ last_call.ret.end_time # NoTime

-----------------------------------------------------------------------------
SuccessCount(task_id) ==
    Cardinality({subtask_id \in DOMAIN task_results[task_id] :
                    task_results[task_id][subtask_id] = Success})

\* two progress values are the same number
SameProgress(p, q) == p[1] * q[2] = q[1] * p[2]

\* C21: get_task_status reports completed_subtasks as the number of the task's
\* subtasks with a success entry and progress as that number over
\* total_subtasks (0 when the task has no subtasks); failure entries are not
\* counted as completed.
C21_ProgressCountsSuccessesOnly ==
    LastCall("get_task_status") =>
        LET task_id == last_call.task_id
            total_subtasks == Len(active_tasks[task_id].subtasks)
        IN /\ last_call.ret.completed_subtasks = SuccessCount(task_id)
           /\ SameProgress(last_call.ret.progress,
                           Progress(SuccessCount(task_id), total_subtasks))

-----------------------------------------------------------------------------
\* the subtasks of task_id that the last call executed with success
SucceededInLastCall(task_id) ==
    {events[i].subtask_id : i \in {j \in 1..Len(events) :
        /\ events[j].kind = "execute"
        /\ events[j].task_id = task_id
        /\ events[j].outcome = "ok"}}

IsQueued(task_id, subtask_id) ==
    \E i \in 1..Len(task_queue) :
        /\ task_queue[i].task_id = task_id
        /\ task_queue[i].subtask_id = subtask_id

\* C22: when a subtask has completed with success in a call, every subtask of
\* the same task that depends on it, has no result and has all its
\* dependencies succeeded is in the queue when the call returns, whatever
\* other tasks are registered.
C22_ReadyDependentsAreEnqueued ==
    LastCall("execute_task") =>
        LET task_id == last_call.task_id IN
        \A subtask_id \in SubtasksOf(task_id) :
            (/\ subtask_id \in DOMAIN task_results[task_id]
             /\ task_results[task_id][subtask_id] = None
             /\ task_dependencies[task_id][subtask_id]
                    \cap SucceededInLastCall(task_id) # {}
             /\ DepsSucceeded(task_results[task_id],
                              task_dependencies[task_id][subtask_id]))
            => IsQueued(task_id, subtask_id)

-----------------------------------------------------------------------------
SameSubtask(a, b) == a.task_id = b.task_id /\ a.subtask_id = b.subtask_id

\* C23: the queue is one shared FIFO: while an item that an earlier operation
\* enqueued is still waiting, a call executes nothing that was enqueued after
\* it, also when the two belong to different tasks.
C23_SharedFifo ==
    [][calls' = calls + 1 =>
        \A i \in 1..Len(task_queue) :
            (/\ \E m \in 1..Len(task_queue') : task_queue'[m] = task_queue[i]
             /\ \A j \in 1..Len(events') :
                   events'[j].kind = "execute" => ~ SameSubtask(events'[j], task_queue[i]))
            => \A j \in 1..Len(events') :
                   events'[j].kind = "execute" =>
                       \E k \in 1..(i - 1) : SameSubtask(task_queue[k], events'[j])]_vars

-----------------------------------------------------------------------------
\* the number of events of log before its first execute event
BeforeFirstExecute(log) ==
    Cardinality({i \in 1..Len(log) :
                    \A j \in 1..i : log[j].kind # "execute"})

\* the ids of the subtasks of task_id without dependencies, in definition order
DependencyFree(task_id) ==
    LET free == SelectSeq(active_tasks[task_id].subtasks,
                          LAMBDA subtask : task_dependencies[task_id][subtask.id] = {})
    IN [i \in 1..Len(free) |-> free[i].id]

\* C24: execute_task on a task in status decomposed sets its status to
\* executing, returns status 'executing', and first enqueues exactly the
\* subtasks whose dependency list is empty, in definition order; in that call
\* only such dependency-free subtasks are executed.
C24_ExecuteStartsWithDependencyFree ==
    [][(IsCall("execute_task")
          /\ active_tasks[last_call'.task_id].status = "decomposed") =>
        LET task_id == last_call'.task_id
            initial == SubSeq(events', 1, BeforeFirstExecute(events'))
        IN /\ active_tasks'[task_id].status = "executing"
           /\ last_call'.ret.status = "executing"
           /\ [i \in 1..Len(initial) |-> initial[i].subtask_id] = DependencyFree(task_id)
           /\ \A i \in 1..Len(initial) : initial[i].task_id = task_id
           /\ \A i \in 1..Len(events') :
                 events'[i].kind = "execute" =>
                     /\ events'[i].task_id = task_id
                     /\ task_dependencies[task_id][events'[i].subtask_id] = {}]_vars

-----------------------------------------------------------------------------
\* C25: right after execute_task returns for a task whose only
\* dependency-free subtask is S1, the queue holds the item of S1 and no item
\* of a subtask that depends on S1.
C25_OnlyFirstSubtaskQueuedAfterExecute ==
    (/\ LastCall("execute_task")
     /\ history[last_call.task_id].execute_calls = 1
     /\ Len(DependencyFree(last_call.task_id)) = 1) =>
        LET task_id == last_call.task_id
            first == DependencyFree(task_id)[1]
        IN /\ IsQueued(task_id, first)
           /\ \A subtask_id \in SubtasksOf(task_id) :
                 first \in task_dependencies[task_id][subtask_id]
                     => ~ IsQueued(task_id, subtask_id)

-----------------------------------------------------------------------------
\* C26: every decompose_task call returns a task id different from all ids
\* already registered, and leaves the status and the results of every
\* existing task as they were.
C26_TaskIdsAreFresh ==
    [][(calls' = calls + 1 /\ last_call'.op = "decompose_task") =>
        /\ last_call'.ret.task_id \notin Registered
        /\ \A task_id \in Registered :
              /\ active_tasks'[task_id].status = active_tasks[task_id].status
              /\ task_results'[task_id] = task_results[task_id]]_vars

-----------------------------------------------------------------------------
\* C27: after any sequence of add_event calls, total_events_processed
\* returned by get_full_context equals the number of add_event calls made.
C27_TotalEventsProcessedCountsAdds ==
    get_full_context.total_events_processed = add_calls

\* C28: after every add_event call, current_context_size is at most
\* max_context_size.
C28_ContextSizeWithinMaximum ==
    current_context_size <= max_context_size

-----------------------------------------------------------------------------
\* what execute_task(task_id) enqueues and executes in a scheduler that has
\* seen no other task: empty queue, empty completed and failed sets
AloneEvents(task_id, outcomes) ==
    LET alone == [task_results |-> task_results, task_queue |-> <<>>,
                  completed_tasks |-> {}, failed_tasks |-> {}, events |-> <<>>]
    IN process_task_queue(queue_initial_from(alone, task_id, 1),
                          task_id, outcomes).events

\* C29: tasks are isolated from each other: the first execute_task of a
\* freshly decomposed task enqueues and executes, for the executor outcomes
\* it meets, the same subtasks in the same order as it would if no other
\* task were registered.
C29_TasksAreIsolated ==
    [][(/\ IsCall("execute_task")
        /\ active_tasks[last_call'.task_id].status = "decomposed"
        /\ history[last_call'.task_id].execute_calls = 0
        /\ \A i \in 1..Len(task_queue) : task_queue[i].task_id # last_call'.task_id) =>
        \E outcomes \in [1..max_parallel_tasks -> Outcomes] :
            events' = AloneEvents(last_call'.task_id, outcomes)]_vars

-----------------------------------------------------------------------------
\* C30: the progress in the 'pending' response of get_task_results is the
\* progress get_task_status would report at that moment, also when
\* get_task_status has not been called since the last subtask finished.
C30_PendingProgressIsCurrent ==
    (LastCall("get_task_results") /\ last_call.ret.status = "pending") =>
        LET task_id == last_call.task_id IN
        SameProgress(last_call.ret.progress,
                     Progress(completed_count(task_results[task_id]),
                              Len(active_tasks[task_id].subtasks)))

-----------------------------------------------------------------------------
\* the subtasks of task_id whose result entry is a failure
FailureEntries(task_id) ==
    {subtask_id \in DOMAIN task_results[task_id] :
        task_results[task_id][subtask_id] = Failure}

\* C31: failed_subtasks reported by get_task_status (a count) and by
\* get_task_results (a list) is exactly the set of the task's subtasks whose
\* current result entry is a failure.
C31_FailedSubtasksAreFailureEntries ==
    /\ LastCall("get_task_status") =>
          last_call.ret.failed_subtasks = Cardinality(FailureEntries(last_call.task_id))
    /\ (LastCall("get_task_results") /\ last_call.ret.status = "completed") =>
          last_call.ret.failed_subtasks = FailureEntries(last_call.task_id)

-----------------------------------------------------------------------------
\* C32: in every reachable state completed_tasks and failed_tasks are
\* disjoint: no subtask id is recorded both as completed and as failed.
C32_CompletedAndFailedAreDisjoint ==
    completed_tasks \cap failed_tasks = {}

-----------------------------------------------------------------------------
\* C33: the queue holds items only of tasks in status executing: whenever a
\* task's status is completed or cancelled, the queue holds no item of it.
C33_QueueItemsOnlyOfExecutingTasks ==
    \A i \in 1..Len(task_queue) :
        active_tasks[task_queue[i].task_id].status = "executing"

-----------------------------------------------------------------------------
\* C34: get_task_status and get_task_results never modify a result entry,
\* the queue or the completed and failed sets: get_task_results changes
\* nothing at all, and get_task_status changes at most the status, progress
\* and end_time of the queried task.
C34_StatusAndResultsCallsDoNotMutate ==
    [][/\ IsCall("get_task_results") =>
             UNCHANGED <<active_tasks, task_dependencies, task_results,
                         task_queue, completed_tasks, failed_tasks>>
       /\ IsCall("get_task_status") =>
             /\ UNCHANGED <<task_dependencies, task_results, task_queue,
                            completed_tasks, failed_tasks>>
             /\ DOMAIN active_tasks' = DOMAIN active_tasks
             /\ \A task_id \in Registered :
                   IF task_id = last_call'.task_id
                   THEN /\ active_tasks'[task_id].subtasks = active_tasks[task_id].subtasks
                        /\ active_tasks'[task_id].main_task = active_tasks[task_id].main_task
                        /\ active_tasks'[task_id].start_time = active_tasks[task_id].start_time
                   ELSE active_tasks'[task_id] = active_tasks[task_id]]_vars

\* a status call that reported progress for one of two registered tasks, the
\* other of which has not been executed
C34_Witness ==
    /\ LastCall("get_task_status")
    /\ last_call.ret.completed_subtasks > 0
    /\ \E task_id \in Registered :
          /\ task_id # last_call.task_id
          /\ active_tasks[task_id].status = "decomposed"

-----------------------------------------------------------------------------
\* the items of queue that belong to task_id, in queue order
ItemsOf(queue, task_id) ==
    SelectSeq(queue, LAMBDA item : item.task_id = task_id)

\* C35: execute_task(t) executes and removes from the queue only items of
\* task t: the status, the result entries and the queue items, with their
\* relative order, of every other task are unchanged by it.
C35_ExecuteTouchesOnlyItsTask ==
    [][IsCall("execute_task") =>
        /\ \A i \in 1..Len(events') :
              events'[i].kind = "execute" => events'[i].task_id = last_call'.task_id
        /\ \A task_id \in Registered \ {last_call'.task_id} :
              /\ active_tasks'[task_id].status = active_tasks[task_id].status
              /\ task_results'[task_id] = task_results[task_id]
              /\ ItemsOf(task_queue', task_id) = ItemsOf(task_queue, task_id)]_vars

\* a call that executed subtasks of its task while an item of another task
\* was waiting in the queue
C35_Witness ==
    /\ LastCall("execute_task")
    /\ last_call.ret.executed > 0
    /\ \E i \in 1..Len(task_queue) : task_queue[i].task_id # last_call.task_id

\* C36: for one detected error passed repeatedly to attempt_recovery, a
\* recovery strategy is invoked at most max_recovery_attempts times, however
\* much time passes between the attempts; every further attempt is answered
\* with success False and the message 'Exceeded maximum recovery attempts',
\* and no strategy is invoked for it.
C36_AtMostMaxRecoveryAttemptsPerError ==
    /\ \A detection \in DOMAIN invocations :
           invocations[detection] <= max_recovery_attempts
    /\ (recovery_call.op = "attempt_recovery"
            /\ recovery_call.prior >= max_recovery_attempts)
       => /\ recovery_call.success = FALSE
          /\ recovery_call.message = ExceededMessage
          /\ recovery_call.invoked = None

\* C37: error_history never holds more than max_history_size entries; it
\* holds the most recent detected errors, at most max_history_size of them,
\* in the order of their detection: once it is full, recording a new error
\* drops the oldest entry.
C37_HistoryKeepsTheMostRecentErrors ==
    LET kept == Len(error_history)
    IN /\ kept <= max_history_size
       /\ kept = IF detections < max_history_size
                 THEN detections ELSE max_history_size
       /\ \A i \in 1..kept :
              error_history[i].context.operation = detections - kept + i

C37_Witness ==
    /\ recovery_call.op = "detect_error"
    /\ recovery_call.detection > max_history_size
    /\ Len(error_history) = max_history_size

=============================================================================
